---------------------------- MODULE Spec2Model ----------------------------
(***************************************************************************)
(* A model of the composition pipeline of valora's rainier crate           *)
(* (rainier/src/gpu.rs: Gpu::precompose, Gpu::build_buffers and the        *)
(* factories they use) and of the world/clip coordinate conversion of      *)
(* src/geom/point.rs (Point::fix_coord, Point::restore_coord).             *)
(***************************************************************************)
EXTENDS Integers, Sequences, FiniteSets

VARIABLES
    pc,         \* position of the precompose call
    width,      \* precompose argument (u32)
    height,     \* precompose argument (u32)
    elements,   \* precompose argument: the element stream, as a sequence
    pos,        \* index of the next element the stream will yield
    texture,    \* the local `texture` of precompose
    key,        \* the key `_id` of the group being drawn
    first,      \* the local `first`: the batch's cloned shader
    acc,        \* the accumulator of build_buffers' try_fold
    buffers,    \* the GPU buffers uploaded for the current batch
    log,        \* history: the external calls made so far, in order
    result,     \* what precompose returned
    c0,         \* coordinate conversion: the input coordinate
    cur,        \* coordinate conversion: the current value
    flags,      \* coordinate conversion: per call, whether it rounded
    ops         \* coordinate conversion: the functions applied so far

vars == <<pc, width, height, elements, pos, texture, key, first, acc, buffers,
          log, result, c0, cur, flags, ops>>
gpuVars == <<pc, width, height, elements, pos, texture, key, first, acc,
             buffers,
             log, result>>
coordVars == <<c0, cur, flags, ops>>

Max(a, b) == IF a >= b THEN a ELSE b
Min(a, b) == IF a <= b THEN a ELSE b

(***************************************************************************)
(* IEEE 754 binary32 (Rust's f32), round to nearest, ties to even.  A      *)
(* finite value is (-1)^s * m * 2^e with m < 2^24; it is normal when       *)
(* m >= 2^23 and subnormal when e = EMin.                                  *)
(***************************************************************************)
MantBits == 24
EMin == -149
EMax == 104

Zero(s) == [k |-> "fin", s |-> s, m |-> 0, e |-> 0]
Inf(s) == [k |-> "inf", s |-> s, m |-> 0, e |-> 0]
NaN == [k |-> "nan", s |-> 0, m |-> 0, e |-> 0]

BitLen(M) == CHOOSE n \in 0..30 : (n = 0 \/ 2^(n-1) <= M) /\ M < 2^n

\* The value s, M * 2^e rounded to a binary32, with the IEEE inexact and
\* overflow flags of the rounding.
RoundPack(s, M, e) ==
    IF M = 0 THEN [v |-> Zero(s), inexact |-> FALSE, overflow |-> FALSE]
    ELSE
    LET n == BitLen(M)
        r == Max(n - MantBits, EMin - e)
        q == IF r > 0 THEN M \div 2^r ELSE M * 2^(0 - r)
        rem == IF r > 0 THEN M % 2^r ELSE 0
        half == IF r > 0 THEN 2^(r-1) ELSE 1
        up == rem > half \/ (rem = half /\ q % 2 = 1)
        m1 == IF up THEN q + 1 ELSE q
        carry == m1 = 2^MantBits
        m2 == IF carry THEN 2^(MantBits-1) ELSE m1
        e2 == IF carry THEN e + r + 1 ELSE e + r
    IN  IF e2 > EMax
        THEN [v |-> Inf(s), inexact |-> TRUE, overflow |-> TRUE]
        ELSE IF m2 = 0
        THEN [v |-> Zero(s), inexact |-> rem # 0, overflow |-> FALSE]
        ELSE [v |-> [k |-> "fin", s |-> s, m |-> m2, e |-> e2],
              inexact |-> rem # 0, overflow |-> FALSE]

Exact(v) == [v |-> v, inexact |-> FALSE, overflow |-> FALSE]
Neg(a) == IF a.k = "nan" THEN a ELSE [a EXCEPT !.s = 1 - a.s]
Signed(a, M) == IF a.s = 1 THEN 0 - M ELSE M
\* The exponent k of a power of two a = 2^k.
Log2(a) == a.e + MantBits - 1

\* a + b: the smaller operand is aligned to the larger one with three
\* extra bits (guard, round, sticky), then the sum is rounded.
F32AddFin(a, b) ==
    LET big == IF a.e >= b.e THEN a ELSE b
        small == IF a.e >= b.e THEN b ELSE a
        d == Min(big.e - small.e, 28)
        sh == small.m * 8
        trunc == sh \div 2^d
        sticky == IF sh % 2^d # 0 /\ trunc % 2 = 0 THEN 1 ELSE 0
        S == Signed(big, big.m * 8) + Signed(small, trunc + sticky)
    IN  IF S = 0 THEN Exact(Zero(0))
        ELSE RoundPack(IF S < 0 THEN 1 ELSE 0, IF S < 0 THEN 0 - S ELSE S,
                       big.e - 3)

F32Add(a, b) ==
    IF a.k = "nan" \/ b.k = "nan" THEN Exact(NaN)
    ELSE IF a.k = "inf" /\ b.k = "inf"
    THEN (IF a.s = b.s THEN Exact(a) ELSE Exact(NaN))
    ELSE IF a.k = "inf" THEN Exact(a)
    ELSE IF b.k = "inf" THEN Exact(b)
    ELSE IF a.m = 0 /\ b.m = 0
    THEN Exact(Zero(IF a.s = 1 /\ b.s = 1 THEN 1 ELSE 0))
    ELSE IF a.m = 0 THEN Exact(b)
    ELSE IF b.m = 0 THEN Exact(a)
    ELSE F32AddFin(a, b)

F32Sub(a, b) == F32Add(a, Neg(b))

\* a * b and a / b for b a positive power of two, the only multiplier and
\* divisor the program uses (WORLD_FACTOR): the significand is unchanged
\* and the exponent moves, so only overflow and underflow can round.
F32Mul(a, b) ==
    IF a.k # "fin" THEN Exact(a)
    ELSE RoundPack(a.s, a.m, a.e + Log2(b))

F32Div(a, b) ==
    IF a.k # "fin" THEN Exact(a)
    ELSE RoundPack(a.s, a.m, a.e - Log2(b))

\* f32 ==: NaN equals nothing, and -0.0 == 0.0.
F32Eq(a, b) ==
    /\ a.k # "nan"
    /\ b.k # "nan"
    /\ \/ a = b
       \/ a.k = "fin" /\ b.k = "fin" /\ a.m = 0 /\ b.m = 0

\* `n as f32` for an unsigned integer n.
F32FromU32(n) == RoundPack(0, n, 0).v

(***************************************************************************)
(* src/geom/point.rs                                                       *)
(***************************************************************************)
WORLD_OFFSET == F32FromU32(1)
WORLD_FACTOR == F32FromU32(2)

FixCoordScaled(coord) == F32Mul(coord, WORLD_FACTOR)
\* Fault variant of fix_coord: the offset is added instead of subtracted.
FixCoordOffsetAdded(coord) ==
    LET p == FixCoordScaled(coord)
        d == F32Add(p.v, WORLD_OFFSET)
    IN  [v |-> d.v, inexact |-> p.inexact \/ d.inexact,
         overflow |-> p.overflow \/ d.overflow]
FixCoordFlagged(coord) ==
    LET p == FixCoordScaled(coord)
        d == F32Sub(p.v, WORLD_OFFSET)
    IN  [v |-> d.v, inexact |-> p.inexact \/ d.inexact,
         overflow |-> p.overflow \/ d.overflow]

RestoreCoordShifted(coord) == F32Add(coord, WORLD_OFFSET)
RestoreCoordFlagged(coord) ==
    LET s == RestoreCoordShifted(coord)
        q == F32Div(s.v, WORLD_FACTOR)
    IN  [v |-> q.v, inexact |-> s.inexact \/ q.inexact,
         overflow |-> s.overflow \/ q.overflow]

fix_coord(coord) == FixCoordFlagged(coord).v
restore_coord(coord) == RestoreCoordFlagged(coord).v

(***************************************************************************)
(* rainier/src/gpu.rs: values                                              *)
(***************************************************************************)
Float(v) == [tag |-> "Float", v |-> v]

UniformBufferPush(uniforms, name, value) == Append(uniforms, <<name, value>>)

default_shader(w, h, id) ==
    [id |-> id, program |-> "default",
     uniforms |-> << <<"width", Float(w)>>, <<"height", Float(h)>> >>]

build_shader(program, uniforms, id) ==
    [id |-> id, program |-> program, uniforms |-> uniforms]

\* The rasterizer: a triangulation of the path, coloured with `color`.
PathVertices(path) ==
    IF path = "tri" THEN 3 ELSE IF path = "quad" THEN 4 ELSE 0
PathIndices(path) ==
    IF path = "tri" THEN <<0, 2, 1>>
    ELSE IF path = "quad" THEN <<0, 1, 2, 0, 2, 3>>
    ELSE <<>>
raster_path(path, method, color) ==
    [vertices |-> [k \in 1..PathVertices(path) |->
                      [vpos |-> <<path, k>>, vcol |-> color]],
     indices |-> PathIndices(path)]

\* Result<T>: Ok(v) and Err(e); Try is the `?` operator: on Ok the call goes
\* on at `next`, on Err it returns the error at once.
Ok(v) == [k |-> "Ok", v |-> v]
Err(e) == [k |-> "Err", e |-> e]
\* Fault variant of `?`: the error is swallowed and the call goes on.
TrySwallow(ok, e, next) == [pc |-> next, result |-> [k |-> "none"]]
Try(ok, e, next) ==
    IF ok THEN [pc |-> next, result |-> [k |-> "none"]]
    ELSE [pc |-> "done", result |-> Err(e)]

\* Fault variants of build_texture: the context's 0 x 0 size, and the
\* dimensions in the wrong order.
build_texture_unsized(w, h, id) == [id |-> id, w |-> 0, h |-> 0]
build_texture_swapped(w, h, id) == [id |-> id, w |-> h, h |-> w]
build_texture(w, h, id) == [id |-> id, w |-> w, h |-> h]

\* Fault variant of the key closure: grouping by program.
GroupKeyByProgram(e) == e.shader.program
\* group_by's key closure |e| e.shader.id
GroupKey(e) == e.shader.id

\* Fault variant of the group's end: only the end of the stream ends it.
BatchExhaustedAtEnd(es, p, k) == p > Len(es)
\* The group `batch` has yielded all its elements: the stream is at its end
\* or its next element has another key.
BatchExhausted(es, p, k) ==
    IF p > Len(es) THEN TRUE ELSE GroupKey(es[p]) # k

\* The loop over the groups ends when the stream is at its end.
LoopDone(es, p) == p > Len(es)

\* batch.peek(): the index of the element the batch yields next.
Peek(p) == p
\* Fault variant of the peek: next() instead of peek(), so the peeked
\* element is consumed.
AfterPeekConsumed(p) == p + 1
\* The index of the element the batch yields after the peek.
AfterPeek(p) == p

\* The draw state of a batch: the clone of the peeked element's shader with
\* the composition's width and height pushed.
Bound(uniforms, name) == \E j \in DOMAIN uniforms : uniforms[j][1] = name
\* Fault variant of the pushes: a name the caller bound is not pushed again.
PushDefaultsUnbound(uniforms, w, h) ==
    LET u1 == IF Bound(uniforms, "width") THEN uniforms
              ELSE UniformBufferPush(uniforms, "width", Float(F32FromU32(w)))
    IN  IF Bound(uniforms, "height") THEN u1
        ELSE UniformBufferPush(u1, "height", Float(F32FromU32(h)))
PushDefaults(uniforms, w, h) ==
    UniformBufferPush(
        UniformBufferPush(uniforms, "width", Float(F32FromU32(w))),
        "height", Float(F32FromU32(h)))
BatchShader(shader, w, h) ==
    [shader EXCEPT !.uniforms = PushDefaults(shader.uniforms, w, h)]

\* Fault variant of the rebasing: the indices are merged as they are.
RebaseNone(new_indices, idx) == new_indices
\* |i| i + idx on u32: the vertex counts reached here are far below 2^32,
\* where the sum would leave the type.
Rebase(new_indices, idx) ==
    [j \in 1..Len(new_indices) |-> new_indices[j] + idx]
\* The closure of build_buffers' try_fold, on a rasterized element.
FoldStep(a, mesh, i) ==
    LET vertices == a.vertices \o mesh.vertices
    IN  [idx |-> Len(vertices),
         vertices |-> vertices,
         indices |-> a.indices \o Rebase(mesh.indices, a.idx),
         elems |-> Append(a.elems, i)]
EmptyFold == [idx |-> 0, vertices |-> <<>>, indices |-> <<>>, elems |-> <<>>]

\* The GpuCommand precompose hands to draw_to_texture.
GpuCommand(bufs, tex, shader) ==
    [vertices |-> bufs.vertices, indices |-> bufs.indices, texture |-> tex,
     program |-> shader.program, uniforms |-> shader.uniforms]

(***************************************************************************)
(* The inputs of precompose.                                               *)
(***************************************************************************)
MaxElems == 3

ShaderPool ==
    {default_shader(F32FromU32(8), F32FromU32(8), 1),
     build_shader("glsl", << <<"t", Float(WORLD_OFFSET)>> >>, 1),
     build_shader("glsl", << <<"height", Float(F32FromU32(5))>> >>, 2)}

Paths == {"empty", "tri", "quad"}

ElementPool ==
    {[path |-> p, color |-> "rgba", raster_method |-> "Fill", shader |-> sh,
      sample_depth |-> "Single"] : p \in Paths, sh \in ShaderPool}

SeqsUpTo(S, n) == UNION {[1..k -> S] : k \in 0..n}

Dims == {<<16777217, 3>>, <<4, 4>>}

(***************************************************************************)
(* Coordinate conversion: the inputs are finite f32 values, and each step  *)
(* applies fix_coord or restore_coord to the current value.                *)
(***************************************************************************)
MaxExpo == 4
MaxOps == 2

Mantissas == {2^23, 2^23 + 1, 12582912, 13421773, 2^24 - 1}

CoordSamples ==
    {[k |-> "fin", s |-> s, m |-> m, e |-> e] :
        s \in {0, 1}, m \in Mantissas,
        e \in (1 - MantBits - MaxExpo)..(1 - MantBits + MaxExpo)}
    \cup {Zero(0), Zero(1)}
    \cup {[k |-> "fin", s |-> s, m |-> m, e |-> e] :
        s \in {0, 1}, m \in {2^23, 2^24 - 1}, e \in {EMin, EMax - 1, EMax}}
    \cup {[k |-> "fin", s |-> s, m |-> 1, e |-> EMin] : s \in {0, 1}}

GpuIdle ==
    /\ pc = "idle"
    /\ width = 0
    /\ height = 0
    /\ elements = <<>>
    /\ pos = 1
    /\ texture = [id |-> 0, w |-> 0, h |-> 0]
    /\ key = 0
    /\ first = [id |-> 0, program |-> "none", uniforms |-> <<>>]
    /\ acc = EmptyFold
    /\ buffers = [vertices |-> <<>>, indices |-> <<>>]
    /\ log = <<>>
    /\ result = [k |-> "none"]

CoordIdle ==
    /\ c0 = Zero(0)
    /\ cur = Zero(0)
    /\ flags = <<>>
    /\ ops = <<>>

InitCoord ==
    /\ GpuIdle
    /\ c0 \in CoordSamples
    /\ cur = c0
    /\ flags = <<>>
    /\ ops = <<>>

FixCoord ==
    /\ Len(ops) < MaxOps
    /\ LET r == FixCoordFlagged(cur)
       IN  /\ cur' = r.v
           /\ flags' = Append(flags, r.inexact \/ r.overflow)
    /\ ops' = Append(ops, "fix_coord")
    /\ UNCHANGED <<c0, gpuVars>>

RestoreCoord ==
    /\ Len(ops) < MaxOps
    /\ LET r == RestoreCoordFlagged(cur)
       IN  /\ cur' = r.v
           /\ flags' = Append(flags, r.inexact \/ r.overflow)
    /\ ops' = Append(ops, "restore_coord")
    /\ UNCHANGED <<c0, gpuVars>>

NextCoord == FixCoord \/ RestoreCoord

SpecCoord == InitCoord /\ [][NextCoord]_vars

(***************************************************************************)
(* Gpu::precompose, one action per external call it makes.                 *)
(***************************************************************************)
Init == GpuIdle /\ CoordIdle

Logged(op, ok, data) == Append(log, [op |-> op, ok |-> ok, data |-> data])

Call ==
    /\ pc = "idle"
    /\ \E d \in Dims, es \in SeqsUpTo(ElementPool, MaxElems) :
          /\ width' = d[1]
          /\ height' = d[2]
          /\ elements' = es
    /\ pc' = "alloc"
    /\ UNCHANGED <<pos, texture, key, first, acc, buffers, log, result,
                   coordVars>>

\* let texture = self.build_texture(width, height)?;
BuildTexture ==
    /\ pc = "alloc"
    /\ \E ok \in BOOLEAN :
          LET t == build_texture(width, height, 1)
              r == Try(ok, "build_texture", "group")
          IN  /\ log' = Logged("build_texture", ok, t)
              /\ texture' = IF ok THEN t ELSE texture
              /\ pc' = r.pc
              /\ result' = r.result
    /\ UNCHANGED <<width, height, elements, pos, key, first, acc, buffers,
                   coordVars>>

\* The loop yields the next group; its first element is peeked and its
\* shader cloned, and width and height are pushed on the clone.
BeginBatch ==
    /\ pc = "group"
    /\ ~LoopDone(elements, pos)
    /\ key' = GroupKey(elements[pos])
    /\ first' = BatchShader(elements[Peek(pos)].shader, width, height)
    /\ pos' = AfterPeek(pos)
    /\ acc' = EmptyFold
    /\ buffers' = [vertices |-> <<>>, indices |-> <<>>]
    /\ pc' = "fold"
    /\ UNCHANGED <<width, height, elements, texture, log, result, coordVars>>

\* One step of build_buffers' try_fold: raster_path(...)? and the merge.
RasterStep ==
    /\ pc = "fold"
    /\ ~BatchExhausted(elements, pos, key)
    /\ \E ok \in BOOLEAN :
          LET element == elements[pos]
              r == Try(ok, "raster_path", "fold")
          IN  /\ log' = Logged("raster_path", ok, pos)
              /\ acc' = IF ok
                        THEN FoldStep(acc, raster_path(element.path,
                                 element.raster_method, element.color), pos)
                        ELSE acc
              /\ pc' = r.pc
              /\ result' = r.result
    /\ pos' = pos + 1
    /\ UNCHANGED <<width, height, elements, texture, key, first, buffers,
                   coordVars>>

\* VertexBuffer::new(ctx, vertices)?
UploadVertices ==
    /\ pc = "fold"
    /\ BatchExhausted(elements, pos, key)
    /\ \E ok \in BOOLEAN :
          LET r == Try(ok, "VertexBuffer::new", "ibuf")
          IN  /\ log' = Logged("VertexBuffer::new", ok, acc.vertices)
              /\ buffers' = IF ok THEN [buffers EXCEPT !.vertices = acc.vertices]
                            ELSE buffers
              /\ pc' = r.pc
              /\ result' = r.result
    /\ UNCHANGED <<width, height, elements, pos, texture, key, first, acc,
                   coordVars>>

\* IndexBuffer::new(ctx, TrianglesList, indices)?
UploadIndices ==
    /\ pc = "ibuf"
    /\ \E ok \in BOOLEAN :
          LET r == Try(ok, "IndexBuffer::new", "draw")
          IN  /\ log' = Logged("IndexBuffer::new", ok, acc.indices)
              /\ buffers' = IF ok THEN [buffers EXCEPT !.indices = acc.indices]
                            ELSE buffers
              /\ pc' = r.pc
              /\ result' = r.result
    /\ UNCHANGED <<width, height, elements, pos, texture, key, first, acc,
                   coordVars>>

\* self.draw_to_texture(GpuCommand { .. })?
Draw ==
    /\ pc = "draw"
    /\ \E ok \in BOOLEAN :
          LET cmd == GpuCommand(buffers, texture, first)
              r == Try(ok, "draw", "group")
          IN  /\ log' = Logged("draw", ok, [cmd |-> cmd, elems |-> acc.elems])
              /\ pc' = r.pc
              /\ result' = r.result
    /\ UNCHANGED <<width, height, elements, pos, texture, key, first, acc,
                   buffers, coordVars>>

\* Ok(Rc::new(texture))
Return ==
    /\ pc = "group"
    /\ LoopDone(elements, pos)
    /\ pc' = "done"
    /\ result' = Ok(texture)
    /\ UNCHANGED <<width, height, elements, pos, texture, key, first, acc,
                   buffers, log, coordVars>>

Next ==
    \/ Call
    \/ BuildTexture
    \/ BeginBatch
    \/ RasterStep
    \/ UploadVertices
    \/ UploadIndices
    \/ Draw
    \/ Return

Spec == Init /\ [][Next]_vars

(***************************************************************************)
(* Properties.  The runs of the input are stated on the input itself.      *)
(***************************************************************************)
IdAt(i) == elements[i].shader.id
RunStarts == {i \in 1..Len(elements) : IF i = 1 THEN TRUE ELSE IdAt(i) # IdAt(i-1)}
RunOf(i) == Cardinality({j \in RunStarts : j <= i})
RunElems(k) ==
    LET members == {i \in 1..Len(elements) : RunOf(i) = k}
        start == CHOOSE i \in members : \A j \in members : i <= j
    IN  [j \in 1..Cardinality(members) |-> start + j - 1]

IsDraw(ev) == ev.op = "draw"
IsRaster(ev) == ev.op = "raster_path"
Draws == SelectSeq(log, IsDraw)
Rasters == SelectSeq(log, IsRaster)
Succeeded == pc = "done" /\ result.k = "Ok"
FirstElem(ev) ==
    IF ev.op = "raster_path" THEN ev.data
    ELSE IF ev.data.elems = <<>> THEN 0 ELSE ev.data.elems[1]

NoVertex == [vpos |-> <<"none", 0>>, vcol |-> "none"]
\* The vertex stream an index array selects from a vertex array: each three
\* consecutive entries are one triangle.
Resolve(vertices, indices) ==
    [j \in 1..Len(indices) |->
        IF indices[j] + 1 \in DOMAIN vertices THEN vertices[indices[j] + 1]
        ELSE NoVertex]
OwnMesh(i) ==
    raster_path(elements[i].path, elements[i].raster_method, elements[i].color)
OwnTriangles(i) == Resolve(OwnMesh(i).vertices, OwnMesh(i).indices)
RECURSIVE TrianglesOfElems(_)
TrianglesOfElems(is) ==
    IF is = <<>> THEN <<>>
    ELSE OwnTriangles(Head(is)) \o TrianglesOfElems(Tail(is))
RECURSIVE TrianglesOfDraws(_)
TrianglesOfDraws(ds) ==
    IF ds = <<>> THEN <<>>
    ELSE Resolve(Head(ds).data.cmd.vertices, Head(ds).data.cmd.indices)
         \o TrianglesOfDraws(Tail(ds))

\* C1: precompose issues one draw per maximal contiguous run of equal
\* shader.id: the k-th draw issued covers exactly the elements of the k-th
\* run, and a call that succeeds has issued as many draws as there are runs
\* (so equal ids share a draw only when adjacent).
C1_OneDrawPerRun ==
    /\ \A k \in 1..Len(Draws) :
          /\ k <= Cardinality(RunStarts)
          /\ Draws[k].data.elems = RunElems(k)
    /\ Succeeded => Len(Draws) = Cardinality(RunStarts)

\* A call that succeeded on three elements whose ids are a, b, a: three draws.
C1_Witness ==
    /\ Succeeded
    /\ Len(elements) = 3
    /\ IdAt(1) = IdAt(3)
    /\ IdAt(1) # IdAt(2)
    /\ Len(Draws) = 3

\* C2: when precompose succeeds, the triangles of its draws, in draw order,
\* are the triangles of raster_path on each element in input order, and
\* each element was rasterized once.
C2_GeometryPreserved ==
    Succeeded =>
        /\ TrianglesOfDraws(Draws) = TrianglesOfElems([i \in 1..Len(elements) |-> i])
        /\ Len(Rasters) = Len(elements)
        /\ \A i \in 1..Len(Rasters) : Rasters[i].data = i

\* A call that succeeded with a run of two elements that both have triangles.
C2_Witness ==
    /\ Succeeded
    /\ \E k \in 1..Len(Draws) :
          /\ Len(Draws[k].data.elems) >= 2
          /\ \A j \in 1..Len(Draws[k].data.elems) :
                OwnMesh(Draws[k].data.elems[j]).indices # <<>>
    /\ Len(Draws) >= 2

\* C3: after any number of merges in build_buffers, every index of the
\* merged index array is below the merged vertex count and selects the
\* vertex it selected in its own element's raster_path output.
C3_IndexRebasing ==
    /\ \A j \in 1..Len(acc.indices) :
          acc.indices[j] \in 0..(Len(acc.vertices) - 1)
    /\ Resolve(acc.vertices, acc.indices) = TrianglesOfElems(acc.elems)
    /\ acc.idx = Len(acc.vertices)

\* Three elements merged, the later ones with triangles of their own.
C3_Witness ==
    /\ Len(acc.elems) = 3
    /\ elements[1].path = "quad"
    /\ elements[2].path = "tri"
    /\ elements[3].path = "quad"

\* C4: the draws are issued in the order of the runs, and the draw of a run
\* is issued before any element of a later run is rasterized or drawn.
C4_DrawOrder ==
    /\ \A k \in 1..Len(Draws) : RunOf(FirstElem(Draws[k])) = k
    /\ \A p \in DOMAIN log, q \in DOMAIN log :
          (/\ log[p].op = "draw"
           /\ log[q].op \in {"raster_path", "draw"}
           /\ RunOf(FirstElem(log[q])) > RunOf(FirstElem(log[p])))
          => p < q

\* Two runs, the one with the larger id first, both drawn.
C4_Witness ==
    /\ Succeeded
    /\ Len(Draws) = 2
    /\ IdAt(1) > IdAt(Len(elements))
    /\ Draws[1].data.cmd.program # Draws[2].data.cmd.program

DefaultsOf(w, h) ==
    << <<"width", Float(F32FromU32(w))>>, <<"height", Float(F32FromU32(h))>> >>

\* C5: each draw uses the program of the first element of its run and that
\* element's uniforms followed by width and height of the composition as
\* Float values, whatever the caller bound.
C5_DrawState ==
    \A k \in 1..Len(Draws) :
        LET i == FirstElem(Draws[k])
        IN  /\ i \in 1..Len(elements)
            /\ Draws[k].data.cmd.program = elements[i].shader.program
            /\ Draws[k].data.cmd.uniforms
                 = elements[i].shader.uniforms \o DefaultsOf(width, height)

\* Two batches in one composition whose shaders both bind a default name,
\* with a width that is no f32.
C5_Witness ==
    /\ Len(Draws) = 2
    /\ Bound(elements[FirstElem(Draws[1])].shader.uniforms, "width")
    /\ Bound(elements[FirstElem(Draws[2])].shader.uniforms, "height")
    /\ RoundPack(0, width, 0).inexact

\* C6: on the empty sequence precompose makes one call, the allocation of
\* the target, and no rasterization, upload or draw; when the allocation
\* succeeds it returns Ok with a target of width x height.
C6_EmptyComposition ==
    (elements = <<>> /\ pc \notin {"idle", "alloc"}) =>
        /\ pc \in {"group", "done"}
        /\ Len(log) = 1
        /\ log[1].op = "build_texture"
        /\ (log[1].ok /\ pc = "done") =>
              /\ result.k = "Ok"
              /\ result.v.w = width
              /\ result.v.h = height

C6_Witness ==
    /\ elements = <<>>
    /\ Succeeded
    /\ width # height

\* C7: a call that fails is the last call precompose makes: precompose has
\* returned that error and no target; and it returns an error only then.
C7_ErrorPropagation ==
    /\ \A p \in DOMAIN log :
          ~log[p].ok =>
              /\ p = Len(log)
              /\ pc = "done"
              /\ result = Err(log[p].op)
    /\ result.k = "Err" => (log # <<>> /\ ~log[Len(log)].ok)

\* The draw of the second run failed, after the first run was drawn.
C7_Witness ==
    /\ Len(Draws) = 2
    /\ Draws[1].ok
    /\ ~Draws[2].ok
    /\ Len(elements) = 3

\* C9: no draw is issued for a run whose elements produce no vertices and
\* no indices.
C9_EmptyRunSkipsDraw ==
    \A k \in 1..Len(Draws) :
        Draws[k].data.cmd.vertices # <<>> \/ Draws[k].data.cmd.indices # <<>>

\* C10: the first call of precompose allocates the target, of width x
\* height; no other target is allocated, every draw goes to it and it is
\* what a successful call returns.
C10_SingleTarget ==
    /\ \A p \in DOMAIN log : (log[p].op = "build_texture") = (p = 1)
    /\ log # <<>> => (log[1].data.w = width /\ log[1].data.h = height)
    /\ \A k \in 1..Len(Draws) :
          log[1].ok /\ Draws[k].data.cmd.texture = log[1].data
    /\ result.k = "Ok" => (log # <<>> /\ log[1].ok /\ result.v = log[1].data)

C10_Witness ==
    /\ Succeeded
    /\ Len(Draws) = 3
    /\ width # height

RoundTrip(ops2) == ops = ops2 => F32Eq(cur, c0)

\* C8 as stated: for every finite c, restore_coord(fix_coord(c)) = c and
\* fix_coord(restore_coord(c)) = c.
C8_RoundTrip ==
    /\ RoundTrip(<<"fix_coord", "restore_coord">>)
    /\ RoundTrip(<<"restore_coord", "fix_coord">>)

\* C8 amended: for every finite c, when the first conversion is computed
\* without rounding or overflow, converting back gives c.
C8_RoundTripWhenExact ==
    (Len(ops) = 2 /\ ops[1] # ops[2] /\ ~flags[1]) => F32Eq(cur, c0)

\* 0.75 -> 0.5 -> 0.75, with no rounding.
C8_Witness ==
    /\ ops = <<"fix_coord", "restore_coord">>
    /\ ~flags[1]
    /\ c0 = [k |-> "fin", s |-> 0, m |-> 12582912, e |-> -24]
    /\ cur = c0

=============================================================================
